---- MODULE Spec2Model ----
(***************************************************************************)
(* Model of the event-resumption and idempotent-decision engine of         *)
(* salesforce-kpis:                                                        *)
(*   app/workloads/first_touch.py  FirstTouchDetector                      *)
(*   app/cdc/subscriber.py         CDCSubscriber._process_event            *)
(*   app/cdc/replay_store.py       ReplayStore                             *)
(*                                                                         *)
(* Datetimes are instants counted in ticks (TicksPerSec ticks per second), *)
(* all timezone-aware UTC, which is what every caller of                   *)
(* detect_first_touch builds (parse_dt of a Salesforce string, or          *)
(* datetime.fromisoformat of a 'Z' string).  Timestamp strings are records *)
(* [kind, ticks]; an optional value (Python None or a value) is the empty  *)
(* set or a singleton.                                                     *)
(***************************************************************************)
EXTENDS Integers, Sequences, FiniteSets, TLC

\* ---------------------------------------------------------------- bounds
TicksPerSec == 2
CreatedSec == 120
StepSec == 60
MaxStep == 1
MaxFrac == 1
MaxCands == 3
MaxToken == 2
MaxErrors == 2
MaxClock == 3
MaxClient == 3
MaxPending == 1
MaxBatch == 2

\* ------------------------------------------------------ program constants
SecondsPerMinute == 60

\* ------------------------------------------------------------ value sets
Users == {"U1", "U2"}
Sources == {"Task", "EmailMessage"}
Times == {(CreatedSec + k * StepSec) * TicksPerSec + f : k \in (-1)..MaxStep, f \in 0..MaxFrac}
Candidates == [dt : Times, user : Users, source : Sources]
Procs == {"p1", "p2"}

None == {}
Some(x) == {x}
The(opt) == CHOOSE x \in opt : TRUE

IsoStr(t) == [kind |-> "iso", ticks |-> t]
BadStr == [kind |-> "bad", ticks |-> 0]

\* A key that the dict get_record returned does not have (None is a key
\* whose value is null).
Absent == {[kind |-> "absent", ticks |-> 0]}

\* ---------------------------------------------------------- first_touch.py
\* parse_dt: None or an unparseable string gives None, else the instant.
parse_dt(dt_str) ==
    IF dt_str = None THEN None
    ELSE IF The(dt_str).kind = "iso" THEN Some(The(dt_str).ticks)
    ELSE None

\* iso: strftime('%Y-%m-%dT%H:%M:%S.000Z') drops the sub-second part.
isoCeil(dt) == IsoStr(((dt + TicksPerSec - 1) \div TicksPerSec) * TicksPerSec)
iso(dt) == IsoStr((dt \div TicksPerSec) * TicksPerSec)

\* int(x): Python's int() of a float truncates toward zero.
IntTrunc(num, den) == IF num >= 0 THEN num \div den ELSE -((-num) \div den)

\* floor(x), the rounding the specification asks for.
Floor(num, den) == num \div den

\* ttfr_minutes = int(ttfr_seconds / 60), ttfr_seconds = (candidate - created).total_seconds()
TtfrMinutes(candidate_dt, created_dt) ==
    IntTrunc(candidate_dt - created_dt, SecondsPerMinute * TicksPerSec)

\* existing_dt <= candidate_dt: the existing response wins, ties included.
ExistingWinsStrict(existing_dt, candidate_dt) == existing_dt < candidate_dt
ExistingWinsNever(existing_dt, candidate_dt) == FALSE
ExistingWins(existing_dt, candidate_dt) == existing_dt <= candidate_dt

\* The record of a Lead in the external record store.
EmptyLead ==
    [CreatedDate |-> Some(IsoStr(CreatedSec * TicksPerSec)),
     First_Response_At__c |-> None,
     First_Response_User__c |-> None,
     First_Response_Source__c |-> None,
     Time_to_First_Response__c |-> None]

\* The partial-field update that update_record applies to the record.
update_record(rec, fields) ==
    [rec EXCEPT !.First_Response_At__c = Some(fields.First_Response_At__c),
                !.First_Response_User__c = Some(fields.First_Response_User__c),
                !.First_Response_Source__c = Some(fields.First_Response_Source__c),
                !.Time_to_First_Response__c = Some(fields.Time_to_First_Response__c)]

NoResult == [status |-> "none", reason |-> "none", ttfr_minutes |-> None,
             replaced_existing |-> None]
ErrorAsUpdated(why) == [NoResult EXCEPT !.status = "updated", !.reason = why]
ErrorResult(why) == [NoResult EXCEPT !.status = "error", !.reason = why]
\* No result: the exception left detect_first_touch.
Raised(exc) == [NoResult EXCEPT !.status = "raised", !.reason = exc]
SkippedResult == [NoResult EXCEPT !.status = "skipped", !.reason = "existing_earlier"]
UpdatedResult(ttfr, replaced) ==
    [NoResult EXCEPT !.status = "updated", !.ttfr_minutes = Some(ttfr),
                     !.replaced_existing = Some(replaced)]

\* The decision of detect_first_touch on the record that get_record returned:
\* the result it returns and the update_record calls it issues (none or one).
\* io is the record store's behaviour: "ok", "get_fails" or "update_fails".
\* lead['CreatedDate'] (line 137) is outside every try block: on a record
\* without that key the KeyError leaves detect_first_touch.
DecideFirstTouch(rec, candidate_dt, user_id, source, io) ==
    LET existing_dt == parse_dt(rec.First_Response_At__c)
        created_dt == parse_dt(rec.CreatedDate)
    IN  IF io = "get_fails"
        THEN [result |-> ErrorResult("get_record"), calls |-> << >>]
        ELSE IF existing_dt # None /\ ExistingWins(The(existing_dt), candidate_dt)
        THEN [result |-> SkippedResult, calls |-> << >>]
        ELSE IF rec.CreatedDate = Absent
        THEN [result |-> Raised("KeyError"), calls |-> << >>]
        ELSE IF created_dt = None
        THEN [result |-> ErrorResult("Missing CreatedDate"), calls |-> << >>]
        ELSE LET ttfr_minutes == TtfrMinutes(candidate_dt, The(created_dt))
                 fields == [First_Response_At__c |-> iso(candidate_dt),
                            First_Response_User__c |-> user_id,
                            First_Response_Source__c |-> source,
                            Time_to_First_Response__c |-> ttfr_minutes]
             IN  IF io = "update_fails"
                 THEN [result |-> ErrorResult("update_record"),
                       calls |-> << [fields |-> fields, ok |-> FALSE] >>]
                 ELSE [result |-> UpdatedResult(ttfr_minutes, existing_dt # None),
                       calls |-> << [fields |-> fields, ok |-> TRUE] >>]

\* The record store after the update_record calls of one invocation.
ApplyCalls(rec, calls) ==
    IF Len(calls) = 1 /\ calls[1].ok THEN update_record(rec, calls[1].fields) ELSE rec

\* detect_first_touch run from get_record to return with nothing in between.
detect_first_touch(rec, candidate_dt, user_id, source, io) ==
    LET d == DecideFirstTouch(rec, candidate_dt, user_id, source, io)
    IN  [lead |-> ApplyCalls(rec, d.calls), result |-> d.result, calls |-> d.calls]

\* earliest_task_dt <= earliest_email_dt: the Task candidate is passed.
TaskFirstStrict(task_dt, email_dt) == task_dt < email_dt
TaskFirstReversed(task_dt, email_dt) == task_dt >= email_dt
TaskFirst(task_dt, email_dt) == task_dt <= email_dt

\* The candidate find_and_record_first_touch passes on; None when it has none.
\* tasks and emails are the first rows of the two query results, or None.
PickEarliest(tasks, emails) ==
    LET earliest_task_dt == IF tasks = None THEN None ELSE parse_dt(Some(The(tasks).CreatedDate))
        earliest_email_dt == IF emails = None THEN None ELSE parse_dt(Some(The(emails).MessageDate))
        taskCand == [dt |-> The(earliest_task_dt), user |-> The(tasks).OwnerId, source |-> "Task"]
        emailCand == [dt |-> The(earliest_email_dt), user |-> The(emails).CreatedById,
                      source |-> "EmailMessage"]
    IN  IF earliest_task_dt # None /\ earliest_email_dt # None
        THEN IF TaskFirst(The(earliest_task_dt), The(earliest_email_dt))
             THEN Some(taskCand) ELSE Some(emailCand)
        ELSE IF earliest_task_dt # None THEN Some(taskCand)
        ELSE IF earliest_email_dt # None THEN Some(emailCand)
        ELSE None

\* find_and_record_first_touch: ret is None (Python None) or the result dict.
find_and_record_NoAbsent(rec, tasks, emails, io) ==
    LET pick == PickEarliest(tasks, emails)
    IN  IF io = "query_fails" \/ pick = None
        THEN [lead |-> rec, ret |-> Some(ErrorResult("query")), passed |-> None, calls |-> << >>]
        ELSE LET r == detect_first_touch(rec, The(pick).dt, The(pick).user, The(pick).source, io)
             IN  [lead |-> r.lead, ret |-> Some(r.result), passed |-> pick, calls |-> r.calls]
find_and_record_first_touch(rec, tasks, emails, io) ==
    IF io = "query_fails"
    THEN [lead |-> rec, ret |-> Some(ErrorResult("query")), passed |-> None, calls |-> << >>]
    ELSE LET pick == PickEarliest(tasks, emails)
         IN  IF pick = None
             THEN [lead |-> rec, ret |-> None, passed |-> None, calls |-> << >>]
             ELSE LET r == detect_first_touch(rec, The(pick).dt, The(pick).user,
                                              The(pick).source, io)
                  IN  [lead |-> r.lead, ret |-> Some(r.result), passed |-> pick,
                       calls |-> r.calls]

\* ------------------------------------------------------- cdc/replay_store.py
Channels == {"/data/LeadChangeEvent", "/data/TaskChangeEvent"}

\* The JSON object of the replay file: per channel None (no key) or the token.
EmptyData == [ch \in Channels |-> None]
JsonFile(data) == [kind |-> "json", data |-> data]

\* write_text opens the file with mode 'w', which truncates it, and then writes
\* the text: a file that was truncated and not (or not fully) written is not
\* JSON.  A file that does not exist is "missing".
TornFile == [kind |-> "torn", data |-> EmptyData]
MissingFile == [kind |-> "missing", data |-> EmptyData]

\* ReplayStore._read: the mapping in the file, or {} when it cannot be decoded.
ReplayStore_read(file) == IF file.kind = "json" THEN file.data ELSE EmptyData

\* ReplayStore.get
ReplayStore_get(file, channel) == ReplayStore_read(file)[channel]

\* ReplayStore.set under its lock: read, change one key, rewrite the file.
\* io is the file system's answer to the write: "ok", "write_fails" (open
\* raises, the file is as it was) or "write_torn" (the write raises after the
\* truncation); a failed write raises.
ReplayStore_set(file, channel, replay_id, io) ==
    IF io = "ok"
    THEN [file |-> JsonFile([ReplayStore_read(file) EXCEPT ![channel] = Some(replay_id)]),
          raised |-> FALSE]
    ELSE IF io = "write_torn"
    THEN [file |-> TornFile, raised |-> TRUE]
    ELSE [file |-> file, raised |-> TRUE]

\* ReplayStore.clear(channel) under the lock; target is a channel or "all"
\* (channel None).  For a channel the file is rewritten only when it has the key.
ReplayStore_clear(file, target, io) ==
    LET data == ReplayStore_read(file)
        writes == IF target = "all" THEN TRUE ELSE data[target] # None
        cleared == IF target = "all" THEN EmptyData ELSE [data EXCEPT ![target] = None]
    IN  IF ~writes THEN [file |-> file, raised |-> FALSE]
        ELSE IF io = "ok" THEN [file |-> JsonFile(cleared), raised |-> FALSE]
        ELSE IF io = "write_torn" THEN [file |-> TornFile, raised |-> TRUE]
        ELSE [file |-> file, raised |-> TRUE]

\* ReplayStore.__init__: a file that exists is left alone, a missing one is
\* written as {}.
ReplayStore_init(file, io) ==
    IF file.kind # "missing" THEN [file |-> file, raised |-> FALSE]
    ELSE IF io = "ok" THEN [file |-> JsonFile(EmptyData), raised |-> FALSE]
    ELSE IF io = "write_torn" THEN [file |-> TornFile, raised |-> TRUE]
    ELSE [file |-> file, raised |-> TRUE]

\* What get() does with a read that fails: json.JSONDecodeError and
\* FileNotFoundError are swallowed by _read (get returns None), any other
\* error of read_text ("read_fails") goes through to the caller.
ReplayStore_getRaises(file, io) == io = "read_fails"

\* with self._lock: a thread enters when no other thread holds the lock.
LockFreeAlways(holder) == TRUE
LockFree(holder) == holder = "free"

\* The tokens handed to set(): strings.
Tokens == {ToString(n) : n \in 1..MaxToken}

\* ---------------------------------------------------------- cdc/subscriber.py
\* A replayId is an integer (Pub/Sub) or a string (the SystemModstamp that
\* _convert_to_cdc_event puts there, '' when the record has none).
IntToken(n) == [t |-> "int", n |-> n, s |-> ""]
StrToken(text) == [t |-> "str", n |-> 0, s |-> text]
ReplayIds ==
    {None} \cup {Some(IntToken(n)) : n \in 1..MaxToken}
           \cup {Some(StrToken(text)) : text \in {"", "2025-01-15T10:30:00.000Z"}}

\* An envelope: "full" has data.payload and data.event, "no_data" has no
\* 'data' key at all, "bad_data" has a 'data' that is not a mapping.
Envelopes ==
    {[shape |-> "full", replayId |-> r] : r \in ReplayIds}
        \cup {[shape |-> sh, replayId |-> None] : sh \in {"no_data", "bad_data"}}

\* The envelope carries a token: a replayId that is there and is not the ''
\* that _convert_to_cdc_event puts in for a record without SystemModstamp.
CarriesToken(event) ==
    /\ event.replayId # None
    /\ The(event.replayId) # [t |-> "str", n |-> 0, s |-> ""]

\* str(replay_id)
str(tok) == IF tok.t = "int" THEN ToString(tok.n) ELSE tok.s

\* if replay_id: None, 0 and '' are false.
TruthyStrOnly(replay_id) == replay_id # None /\ The(replay_id).t = "str" /\ The(replay_id).s # ""
TruthyIntOnly(replay_id) == replay_id # None /\ The(replay_id).t = "int" /\ The(replay_id).n # 0
Truthy(replay_id) ==
    /\ replay_id # None
    /\ IF The(replay_id).t = "int" THEN The(replay_id).n # 0 ELSE The(replay_id).s # ""

\* _extract_object_name
_extract_object_name(channel) ==
    IF channel = "/data/LeadChangeEvent" THEN "Lead"
    ELSE IF channel = "/data/TaskChangeEvent" THEN "Task"
    ELSE IF channel = "/data/EmailMessageChangeEvent" THEN "EmailMessage"
    ELSE "Unknown"

\* except Exception around the body of _process_event: whatever is raised at
\* stage "extract", "store" or "handler" is caught there, nothing propagates.
PropagatesHandler(stage) == stage = "handler"
PropagatesStore(stage) == stage = "store"
Propagates(stage) == FALSE

\* _process_event(channel, event).  handlerRaises: the registered handler
\* raises for this payload; io: the answer to the replay file write.
_process_event(file, registered, channel, event, handlerRaises, io) ==
    LET object_name == _extract_object_name(channel)
        replay_id == event.replayId
        set == ReplayStore_set(file, channel, str(The(replay_id)), io)
        quiet == [file |-> file, stored |-> FALSE, invoked |-> FALSE, raised |-> FALSE,
                  error |-> None, propagated |-> FALSE]
        handled(f, st) ==
            IF channel \in registered
            THEN IF handlerRaises
                 THEN [quiet EXCEPT !.file = f, !.stored = st, !.invoked = TRUE,
                                    !.raised = TRUE,
                                    !.error = Some(<<object_name, "HandlerError">>),
                                    !.propagated = Propagates("handler")]
                 ELSE [quiet EXCEPT !.file = f, !.stored = st, !.invoked = TRUE]
            ELSE [quiet EXCEPT !.file = f, !.stored = st]
    IN  IF event.shape = "bad_data"
        THEN [quiet EXCEPT !.error = Some(<<object_name, "AttributeError">>),
                           !.propagated = Propagates("extract")]
        ELSE IF Truthy(replay_id)
        THEN IF set.raised
             THEN [quiet EXCEPT !.file = set.file,
                                !.error = Some(<<object_name, "OSError">>),
                                !.propagated = Propagates("store")]
             ELSE handled(set.file, TRUE)
        ELSE handled(file, FALSE)

\* ------------------------------------------------------------------ state
VARIABLES
    lead,        \* the Lead record held by the record store
    call,        \* the last invocation: its arguments, and the record and
                 \* latest applied candidate it found (history)
    result,      \* what the last invocation returned: None or the result dict
    calls,       \* the update_record calls the last invocation issued
    applied,     \* history: the candidates applied one at a time so far
    lastUpd,     \* history: the candidate of the latest 'updated' result
    taskRow,     \* record store: first row of the Task query for the lead, or None
    emailRow,    \* record store: first row of the EmailMessage query, or None
    pc,          \* concurrent invocations: "idle" or "read" (between get and update)
    snap,        \* concurrent invocations: the record get_record returned
    pend,        \* concurrent invocations: the candidate being applied
    lastWrite,   \* history: the latest update_record of a concurrent invocation
    replayFile,  \* the replay file of the ReplayStore
    handlers,    \* CDCSubscriber.handlers: the channels with a registered handler
    cdc_errors_total,  \* the error counter, per (object, error_type) label
    alive,       \* the loop that feeds _process_event has not been left by an exception
    lastEvent,   \* history: the last envelope processed and what happened to it
    raisedOn,    \* history: per channel, the handler raised for its latest envelope
    stepPc,      \* _process_event in steps: "idle", or "handler" (token persisted,
                 \* handler not yet run)
    stepEnv,     \* _process_event in steps: the envelope being processed
    stepPrev,    \* history: the channel's entry in the replay file before that envelope
    crashedAt,   \* history: the envelope during whose handler the process died
    now,         \* the clock, which the record store and utcnow() share
    modstamps,   \* record store: per channel, the SystemModstamp of each record of its object
    running,     \* a process is inside start()
    last_poll_times,  \* start_polling's local dict: per channel None or a SystemModstamp
    pollIdx,     \* the position of the for loop over self.channels
    pollPc,      \* "begin", "query" (last_poll computed) or "process" (inside the batch)
    last_poll,   \* the local last_poll of the current iteration
    batch,       \* the records of the current query still to be processed
    startEntry,  \* history: per channel, its entry in the replay file when start() was called
    queriedFrom, \* history: per channel, the lower bound of the latest query since start()
    delivered,   \* history: per channel, the records handed to _process_event since start()
    failedFrom,  \* history: per channel, the lower bound and the watermark of its
                 \* latest query if that query failed, else None
    raisedStamps,  \* history: per channel, the records whose handler raised
    constructed, \* a ReplayStore object exists
    committed,   \* history: per channel, the token of the last set() on it that
                 \* returned, None once a later set() or clear() on it was called
    lastSet,     \* history: the latest set() that ended, if nothing but get() and
                 \* constructions came after it
    lastGet,     \* history: the latest get(), what it returned and what it found
    lock,        \* ReplayStore._lock: "free" or the thread that holds it
    tpc,         \* per thread, its place in set(): "idle", "waiting" (called, not
                 \* yet in the with block), "locked" (data read and changed) or
                 \* "opened" (write_text has opened, and so truncated, the file)
    tset,        \* per thread, the set() it is in
    prevSet,     \* history: the set() that ended just before lastSet (SpecThreads
                 \* keeps in the two only calls that returned and that ran while
                 \* another thread was in set())
    crashRec,    \* history: the set() that was under way when the process died
    lpc,         \* CDCListener.start: "idle", "streaming" (in the listen loop),
                 \* "lost" (_connect returned None) or "returned" (handshake failed)
    client_id,   \* CDCListener.client_id: None or the id of the latest handshake
    subs,        \* event source: per channel, None or the resume point of the
                 \* subscription that the client client_id holds
    pending,     \* event source: per channel, the envelopes queued for the client
    heard,       \* history: the channels with an envelope handed to
                 \* _process_message since the latest handshake
    everSubscribed,  \* history: the channels start() subscribed
    reconnected, \* history: a re-handshake succeeded since start()
    missed,      \* history: the channels, once subscribed, with an envelope
                 \* published while the client held no subscription to them
    plRunning,   \* PollingListener.running
    plPc,        \* PollingListener.start: "idle", "while" (at the loop test), "for"
                 \* (between two _poll_object), "handling" (awaiting a handler),
                 \* "sleep" (awaiting asyncio.sleep) or "done" (start returned)
    plIdx,       \* the position of the for loop over the handlers
    plBatch,     \* the records of the current query not yet handled, the one
                 \* being handled included
    plHandled,   \* history: the records whose handler has returned since start()
    stopAsked,   \* history: stop() has been called
    startedAfterStop  \* history: a handler was called after stop() had been called

ftVars == <<lead, call, result, calls, applied, lastUpd>>
rowVars == <<taskRow, emailRow>>
concVars == <<pc, snap, pend, lastWrite>>
cdcVars == <<replayFile, handlers, cdc_errors_total, alive, lastEvent, raisedOn>>
stepVars == <<stepPc, stepEnv, stepPrev, crashedAt>>
pollVars == <<now, modstamps, running, last_poll_times, pollIdx, pollPc, last_poll, batch,
              startEntry, queriedFrom, delivered, failedFrom, raisedStamps>>
storeVars == <<constructed, committed, lastSet, lastGet>>
threadVars == <<lock, tpc, tset, prevSet, crashRec>>
storeSide == <<storeVars, threadVars>>
listenVars == <<lpc, client_id, subs, pending, heard, everSubscribed, reconnected, missed>>
plVars == <<plRunning, plPc, plIdx, plBatch, plHandled, stopAsked, startedAfterStop>>
listenerVars == <<listenVars, plVars>>
resumeVars == <<stepVars, pollVars, storeSide, listenerVars>>
vars == <<lead, call, result, calls, applied, lastUpd, taskRow, emailRow, pc, snap, pend, lastWrite,
          replayFile, handlers, cdc_errors_total, alive, lastEvent, raisedOn,
          stepPc, stepEnv, stepPrev, crashedAt,
          now, modstamps, running, last_poll_times, pollIdx, pollPc, last_poll, batch,
          startEntry, queriedFrom, delivered, failedFrom, raisedStamps,
          constructed, committed, lastSet, lastGet,
          lock, tpc, tset, prevSet, crashRec,
          lpc, client_id, subs, pending, heard, everSubscribed, reconnected, missed,
          plRunning, plPc, plIdx, plBatch, plHandled, stopAsked, startedAfterStop>>

NoCall == [op |-> "none", cand |-> None, io |-> "ok", before |-> EmptyLead, prevUpd |-> None]
ErrorLabels ==
    {_extract_object_name(ch) : ch \in Channels}
        \X {"HandlerError", "AttributeError", "OSError", "polling_error"}
NoEvent == [channel |-> "none", event |-> [shape |-> "none", replayId |-> None],
            stored |-> FALSE, invoked |-> FALSE, raised |-> FALSE, error |-> None,
            propagated |-> FALSE, afterRaise |-> FALSE, kept |-> TRUE]
NoWrite == [proc |-> "none", read |-> None, before |-> None, after |-> None]
NoEnvelope == [channel |-> "none", event |-> [shape |-> "none", replayId |-> None]]
NoSet == [channel |-> "none", token |-> "", before |-> EmptyData, raised |-> FALSE,
          overlap |-> FALSE]
NoGet == [channel |-> "none", value |-> None, raised |-> FALSE, unreadable |-> FALSE,
          expected |-> None, old |-> None, new |-> None]
NoThreadSet == [channel |-> "none", token |-> "", file0 |-> JsonFile(EmptyData),
                data |-> EmptyData, overlap |-> FALSE]
NoCrash == [inSet |-> FALSE, before |-> JsonFile(EmptyData), after |-> EmptyData]

InitOther ==
    /\ call = NoCall
    /\ result = None
    /\ calls = << >>
    /\ applied = {}
    /\ lastUpd = None
    /\ taskRow = None
    /\ emailRow = None
    /\ pc = [p \in Procs |-> "idle"]
    /\ snap = [p \in Procs |-> EmptyLead]
    /\ pend = [p \in Procs |-> None]
    /\ lastWrite = NoWrite
    /\ handlers = {}
    /\ cdc_errors_total = [l \in ErrorLabels |-> 0]
    /\ alive = TRUE
    /\ lastEvent = NoEvent
    /\ raisedOn = [ch \in Channels |-> FALSE]
    /\ stepPc = "idle"
    /\ stepEnv = NoEnvelope
    /\ stepPrev = None
    /\ crashedAt = NoEnvelope
    /\ now = 0
    /\ modstamps = [ch \in Channels |-> {}]
    /\ running = FALSE
    /\ last_poll_times = [ch \in Channels |-> None]
    /\ pollIdx = 1
    /\ pollPc = "begin"
    /\ last_poll = 0
    /\ batch = << >>
    /\ startEntry = [ch \in Channels |-> None]
    /\ queriedFrom = [ch \in Channels |-> None]
    /\ delivered = [ch \in Channels |-> {}]
    /\ failedFrom = [ch \in Channels |-> None]
    /\ raisedStamps = [ch \in Channels |-> {}]
    /\ committed = [ch \in Channels |-> None]
    /\ lastSet = NoSet
    /\ lastGet = NoGet
    /\ lock = "free"
    /\ tpc = [p \in Procs |-> "idle"]
    /\ tset = [p \in Procs |-> NoThreadSet]
    /\ prevSet = NoSet
    /\ crashRec = NoCrash
    /\ lpc = "idle"
    /\ client_id = None
    /\ subs = [ch \in Channels |-> None]
    /\ pending = [ch \in Channels |-> 0]
    /\ heard = {}
    /\ everSubscribed = {}
    /\ reconnected = FALSE
    /\ missed = {}
    /\ plRunning = FALSE
    /\ plPc = "idle"
    /\ plIdx = 1
    /\ plBatch = 0
    /\ plHandled = 0
    /\ stopAsked = FALSE
    /\ startedAfterStop = FALSE

\* The state after CDCSubscriber.__init__ built its ReplayStore on a new path.
Init ==
    /\ InitOther
    /\ lead = EmptyLead
    /\ replayFile = JsonFile(EmptyData)
    /\ constructed = TRUE

\* The state before any ReplayStore was constructed on the path.
InitStore ==
    /\ InitOther
    /\ lead = EmptyLead
    /\ replayFile = MissingFile
    /\ constructed = FALSE

\* One sequential call detect_first_touch(lead_id, c.dt, c.user, c.source).
Detect(c, io) ==
    LET r == detect_first_touch(lead, c.dt, c.user, c.source, io)
    IN  /\ lead' = r.lead
        /\ call' = [NoCall EXCEPT !.op = "detect", !.cand = Some(c), !.io = io,
                                  !.before = lead, !.prevUpd = lastUpd]
        /\ result' = Some(r.result)
        /\ calls' = r.calls
        /\ lastUpd' = IF r.result.status = "updated" THEN Some(c) ELSE lastUpd
        /\ UNCHANGED <<applied, rowVars, concVars, cdcVars, resumeVars>>

\* The next member of a set of at most MaxCands candidates is applied to the
\* lead by detect_first_touch, with a record store that answers.
ApplyCandidate(c) ==
    LET r == detect_first_touch(lead, c.dt, c.user, c.source, "ok")
    IN  /\ c \notin applied
        /\ Cardinality(applied) < MaxCands
        /\ lead' = r.lead
        /\ result' = Some(r.result)
        /\ calls' = r.calls
        /\ applied' = applied \cup {c}
        /\ UNCHANGED <<call, lastUpd, rowVars, concVars, cdcVars, resumeVars>>

NextOrder == \E c \in Candidates : ApplyCandidate(c)

SpecOrder == Init /\ [][NextOrder]_vars

\* The first row of a query result: None when the query returned no rows.
DateStrings == {IsoStr(t) : t \in Times} \cup {BadStr}
TaskRows == {None} \cup {Some(r) : r \in [CreatedDate : DateStrings, OwnerId : Users]}
EmailRows == {None} \cup {Some(r) : r \in [MessageDate : DateStrings, CreatedById : Users]}

\* The record store gets a new earliest Task for the lead (or loses it): the
\* Task query will return this row first.  The observations of the last
\* invocation are dropped, they describe a store that no longer exists.
SetTaskRow(row) ==
    /\ row # taskRow
    /\ taskRow' = row
    /\ call' = NoCall /\ result' = None /\ calls' = << >>
    /\ UNCHANGED <<lead, applied, lastUpd, emailRow, concVars, cdcVars, resumeVars>>

\* The same for the earliest EmailMessage related to the lead.
SetEmailRow(row) ==
    /\ row # emailRow
    /\ emailRow' = row
    /\ call' = NoCall /\ result' = None /\ calls' = << >>
    /\ UNCHANGED <<lead, applied, lastUpd, taskRow, concVars, cdcVars, resumeVars>>

\* One call find_and_record_first_touch(lead_id), the two queries included.
Find(io) ==
    LET r == find_and_record_first_touch(lead, taskRow, emailRow, io)
    IN  /\ lead' = r.lead
        /\ call' = [NoCall EXCEPT !.op = "find", !.cand = r.passed, !.io = io,
                                  !.before = lead, !.prevUpd = lastUpd]
        /\ result' = r.ret
        /\ calls' = r.calls
        /\ lastUpd' = IF r.ret # None /\ The(r.ret).status = "updated" THEN r.passed ELSE lastUpd
        /\ UNCHANGED <<applied, rowVars, concVars, cdcVars, resumeVars>>

NextFind ==
    \/ \E row \in TaskRows : SetTaskRow(row)
    \/ \E row \in EmailRows : SetEmailRow(row)
    \/ \E io \in {"ok", "query_fails", "get_fails", "update_fails"} : Find(io)

SpecFind == Init /\ [][NextFind]_vars

\* Concurrent invocations for the same lead.  Each is two steps, get_record
\* and the rest, and the steps of different invocations interleave freely.
ConcCandidates == {c \in Candidates : c.user = "U1" /\ c.source = "Task"}

\* Invocation p starts: get_record returns the record as it is now.
ConcGet(p, c) ==
    /\ pc[p] = "idle"
    /\ pc' = [pc EXCEPT ![p] = "read"]
    /\ snap' = [snap EXCEPT ![p] = lead]
    /\ pend' = [pend EXCEPT ![p] = Some(c)]
    /\ UNCHANGED <<ftVars, rowVars, lastWrite, cdcVars, resumeVars>>

\* Invocation p decides on the record it read and, unless it skips, issues its
\* update_record, which the store applies to the record as it is by then.
ConcFinish(p, io) ==
    LET c == The(pend[p])
        d == DecideFirstTouch(snap[p], c.dt, c.user, c.source, io)
        after == ApplyCalls(lead, d.calls)
    IN  /\ pc[p] = "read"
        /\ pc' = [pc EXCEPT ![p] = "idle"]
        /\ snap' = [snap EXCEPT ![p] = EmptyLead]
        /\ pend' = [pend EXCEPT ![p] = None]
        /\ lead' = after
        /\ lastWrite' =
               IF d.result.status = "updated"
               THEN [proc |-> p,
                     read |-> parse_dt(snap[p].First_Response_At__c),
                     before |-> parse_dt(lead.First_Response_At__c),
                     after |-> parse_dt(after.First_Response_At__c)]
               ELSE lastWrite
        /\ UNCHANGED <<call, result, calls, applied, lastUpd, rowVars, cdcVars, resumeVars>>

NextConc ==
    \/ \E p \in Procs, c \in ConcCandidates : ConcGet(p, c)
    \/ \E p \in Procs, io \in {"ok", "update_fails"} : ConcFinish(p, io)

SpecConc == Init /\ [][NextConc]_vars

\* register_handler(channel, handler)
RegisterHandler(ch) ==
    /\ ch \notin handlers
    /\ handlers' = handlers \cup {ch}
    /\ UNCHANGED <<ftVars, rowVars, concVars, replayFile, cdc_errors_total, alive,
                   lastEvent, raisedOn, resumeVars>>

RECURSIVE SumOver(_, _)
SumOver(f, S) ==
    IF S = {} THEN 0 ELSE LET x == CHOOSE y \in S : TRUE IN f[x] + SumOver(f, S \ {x})

\* The event loop hands the next envelope of a channel to _process_event.
\* handlerRaises and io are left at FALSE and "ok" where the code never gets
\* to ask; the error counter is capped at MaxErrors.
ProcessEvent(ch, event, handlerRaises, io) ==
    LET r == _process_event(replayFile, handlers, ch, event, handlerRaises, io)
        asksStore == event.shape # "bad_data" /\ Truthy(event.replayId)
        asksHandler == event.shape # "bad_data" /\ ch \in handlers /\ (asksStore => io = "ok")
    IN  /\ alive
        /\ io # "ok" => asksStore
        /\ handlerRaises => asksHandler
        /\ r.error # None => SumOver(cdc_errors_total, ErrorLabels) < MaxErrors
        /\ replayFile' = r.file
        /\ cdc_errors_total' =
               IF r.error = None \/ r.propagated THEN cdc_errors_total
               ELSE [cdc_errors_total EXCEPT ![The(r.error)] = @ + 1]
        /\ alive' = ~r.propagated
        /\ lastEvent' = [channel |-> ch, event |-> event, stored |-> r.stored,
                         invoked |-> r.invoked, raised |-> r.raised, error |-> r.error,
                         propagated |-> r.propagated, afterRaise |-> raisedOn[ch],
                         kept |-> (r.file = replayFile)]
        /\ raisedOn' = [raisedOn EXCEPT ![ch] = r.raised]
        /\ UNCHANGED <<handlers, ftVars, rowVars, concVars, resumeVars>>

NextCDC ==
    \/ \E ch \in Channels : RegisterHandler(ch)
    \/ \E ch \in Channels, event \in Envelopes, handlerRaises \in BOOLEAN,
          io \in {"ok", "write_fails", "write_torn"} : ProcessEvent(ch, event, handlerRaises, io)

SpecCDC == Init /\ [][NextCDC]_vars

\* _process_event in two steps, with the states between them visible.
\* First step, lines 117-143: the envelope is taken apart and, when it carries
\* a token, ReplayStore.set persists it.  An exception here is caught and
\* counted and _process_event returns.
StepStore(ch, event, io) ==
    LET asksStore == event.shape # "bad_data" /\ Truthy(event.replayId)
        set == ReplayStore_set(replayFile, ch, str(The(event.replayId)), io)
        failed == event.shape = "bad_data" \/ (asksStore /\ set.raised)
        error == <<_extract_object_name(ch),
                   IF event.shape = "bad_data" THEN "AttributeError" ELSE "OSError">>
    IN  /\ stepPc = "idle"
        /\ io # "ok" => asksStore
        /\ failed => SumOver(cdc_errors_total, ErrorLabels) < MaxErrors
        /\ replayFile' = IF asksStore THEN set.file ELSE replayFile
        /\ stepPc' = IF failed THEN "idle" ELSE "handler"
        /\ stepEnv' = IF failed THEN NoEnvelope ELSE [channel |-> ch, event |-> event]
        /\ stepPrev' = ReplayStore_get(replayFile, ch)
        /\ crashedAt' = NoEnvelope
        /\ cdc_errors_total' =
               IF failed THEN [cdc_errors_total EXCEPT ![error] = @ + 1] ELSE cdc_errors_total
        /\ UNCHANGED <<ftVars, rowVars, concVars, handlers, alive, lastEvent, raisedOn, pollVars, storeSide, listenerVars>>

\* Second step, lines 145-175: the handler of the channel, if one is
\* registered, is called with the payload; what it raises is caught and counted.
StepHandler(handlerRaises) ==
    LET error == <<_extract_object_name(stepEnv.channel), "HandlerError">>
    IN  /\ stepPc = "handler"
        /\ handlerRaises => stepEnv.channel \in handlers
        /\ handlerRaises => SumOver(cdc_errors_total, ErrorLabels) < MaxErrors
        /\ stepPc' = "idle"
        /\ stepEnv' = NoEnvelope
        /\ cdc_errors_total' =
               IF handlerRaises THEN [cdc_errors_total EXCEPT ![error] = @ + 1]
               ELSE cdc_errors_total
        /\ UNCHANGED <<ftVars, rowVars, concVars, replayFile, handlers, alive, lastEvent,
                       raisedOn, stepPrev, crashedAt, pollVars, storeSide, listenerVars>>

\* The process dies while the handler runs and is started again: the replay
\* file is what survives, the handlers and the counters of the new process
\* are those of a new CDCSubscriber.
StepCrash ==
    /\ stepPc = "handler"
    /\ crashedAt' = stepEnv
    /\ stepPc' = "idle"
    /\ stepEnv' = NoEnvelope
    /\ handlers' = {}
    /\ cdc_errors_total' = [l \in ErrorLabels |-> 0]
    /\ UNCHANGED <<ftVars, rowVars, concVars, replayFile, alive, lastEvent, raisedOn, stepPrev,
                   pollVars, storeSide, listenerVars>>

NextStep ==
    \/ \E ch \in Channels : RegisterHandler(ch)
    \/ \E ch \in Channels, event \in Envelopes, io \in {"ok", "write_fails", "write_torn"} :
          StepStore(ch, event, io)
    \/ \E handlerRaises \in BOOLEAN : StepHandler(handlerRaises)
    \/ StepCrash

SpecStep == Init /\ [][NextStep]_vars

\* ------------------------------------------------------ start and polling
\* self.channels in the order the for loop of start_polling visits them.
ChannelSeq == <<"/data/LeadChangeEvent", "/data/TaskChangeEvent">>

RECURSIVE Ascending(_)
\* ORDER BY SystemModstamp ASC
Ascending(S) ==
    IF S = {} THEN << >>
    ELSE LET m == CHOOSE x \in S : \A y \in S : x <= y IN <<m>> \o Ascending(S \ {m})

\* sf.query(_build_poll_query(object_name, last_poll)): the records of the
\* object with SystemModstamp > last_poll, ascending (LIMIT 100 is above the
\* number of records the bounds allow).
_build_poll_queryInclusive(stamps, from) == Ascending({m \in stamps : m >= from})
_build_poll_query(stamps, from) == Ascending({m \in stamps : m > from})

\* _convert_to_cdc_event: the replayId of the envelope is the SystemModstamp.
_convert_to_cdc_event(stamp) == [shape |-> "full", replayId |-> Some(StrToken(ToString(stamp)))]

\* The SystemModstamp a stored token stands for.
StampOf(token) == CHOOSE m \in 0..(MaxClock + 1) : ToString(m) = token

\* The record store commits a change to a record of the channel's object.
Commit(ch) ==
    /\ now < MaxClock
    /\ now' = now + 1
    /\ modstamps' = [modstamps EXCEPT ![ch] = @ \cup {now + 1}]
    /\ UNCHANGED <<ftVars, rowVars, concVars, cdcVars, stepVars, storeSide, listenerVars, running, last_poll_times,
                   pollIdx, pollPc, last_poll, batch, startEntry, queriedFrom, delivered,
                   failedFrom, raisedStamps>>

\* start(): start_pubsub reads the replay ID of each channel and logs it,
\* then (or at once, without use_pubsub) start_polling begins with an empty
\* last_poll_times.
Start(use_pubsub) ==
    /\ ~running
    /\ running' = TRUE
    /\ last_poll_times' = [ch \in Channels |-> None]
    /\ pollIdx' = 1
    /\ pollPc' = "begin"
    /\ batch' = << >>
    /\ startEntry' = [ch \in Channels |-> ReplayStore_get(replayFile, ch)]
    /\ queriedFrom' = [ch \in Channels |-> None]
    /\ delivered' = [ch \in Channels |-> {}]
    /\ failedFrom' = [ch \in Channels |-> None]
    /\ UNCHANGED <<ftVars, rowVars, concVars, cdcVars, stepVars, storeSide, listenerVars, now, modstamps, last_poll,
                   raisedStamps>>

NextChannel == IF pollIdx = Len(ChannelSeq) THEN 1 ELSE pollIdx + 1

\* last_poll = last_poll_times.get(object_name, datetime.utcnow().isoformat() + 'Z')
PollBegin ==
    LET ch == ChannelSeq[pollIdx]
    IN  /\ running /\ pollPc = "begin"
        /\ last_poll' = IF last_poll_times[ch] = None THEN now ELSE The(last_poll_times[ch])
        /\ pollPc' = "query"
        /\ UNCHANGED <<ftVars, rowVars, concVars, cdcVars, stepVars, storeSide, listenerVars, now, modstamps, running,
                       last_poll_times, pollIdx, batch, startEntry, queriedFrom, delivered,
                       failedFrom, raisedStamps>>

\* records = self.sf.query(soql); a query that raises is counted as a
\* polling_error and the loop goes to the next channel; so it does, without
\* touching last_poll_times, when there are no records.
PollQuery(io) ==
    LET ch == ChannelSeq[pollIdx]
        records == _build_poll_query(modstamps[ch], last_poll)
        error == <<_extract_object_name(ch), "polling_error">>
    IN  /\ running /\ pollPc = "query"
        /\ io = "query_fails" => SumOver(cdc_errors_total, ErrorLabels) < MaxErrors
        /\ cdc_errors_total' =
               IF io = "query_fails" THEN [cdc_errors_total EXCEPT ![error] = @ + 1]
               ELSE cdc_errors_total
        /\ batch' = IF io = "query_fails" THEN << >> ELSE records
        /\ pollPc' = IF io = "query_fails" \/ records = << >> THEN "begin" ELSE "process"
        /\ pollIdx' = IF io = "query_fails" \/ records = << >> THEN NextChannel ELSE pollIdx
        /\ queriedFrom' = IF io = "query_fails" THEN queriedFrom
                          ELSE [queriedFrom EXCEPT ![ch] = Some(last_poll)]
        /\ failedFrom' =
               [failedFrom EXCEPT ![ch] =
                   IF io = "query_fails"
                   THEN Some([from |-> last_poll, watermark |-> last_poll_times[ch]])
                   ELSE None]
        /\ UNCHANGED <<ftVars, rowVars, concVars, replayFile, handlers, alive, lastEvent,
                       raisedOn, stepVars, storeSide, listenerVars, now, modstamps, running, last_poll_times, last_poll,
                       startEntry, delivered, raisedStamps>>

\* One turn of "for record in records": the record is converted and handed to
\* _process_event; after the last one last_poll_times[object_name] becomes
\* records[-1]['SystemModstamp'].
PollProcess(handlerRaises, io) ==
    LET ch == ChannelSeq[pollIdx]
        stamp == Head(batch)
        r == _process_event(replayFile, handlers, ch, _convert_to_cdc_event(stamp),
                            handlerRaises, io)
    IN  /\ running /\ pollPc = "process"
        /\ handlerRaises => (ch \in handlers /\ io = "ok")
        /\ r.error # None => SumOver(cdc_errors_total, ErrorLabels) < MaxErrors
        /\ replayFile' = r.file
        /\ cdc_errors_total' =
               IF r.error = None THEN cdc_errors_total
               ELSE [cdc_errors_total EXCEPT ![The(r.error)] = @ + 1]
        /\ delivered' = [delivered EXCEPT ![ch] = @ \cup {stamp}]
        /\ raisedStamps' = IF r.raised THEN [raisedStamps EXCEPT ![ch] = @ \cup {stamp}]
                           ELSE raisedStamps
        /\ batch' = Tail(batch)
        /\ last_poll_times' =
               IF Len(batch) = 1 THEN [last_poll_times EXCEPT ![ch] = Some(stamp)]
               ELSE last_poll_times
        /\ pollPc' = IF Len(batch) = 1 THEN "begin" ELSE "process"
        /\ pollIdx' = IF Len(batch) = 1 THEN NextChannel ELSE pollIdx
        /\ UNCHANGED <<ftVars, rowVars, concVars, handlers, alive, lastEvent, raisedOn,
                       stepVars, storeSide, listenerVars, now, modstamps, running, last_poll, startEntry,
                       queriedFrom, failedFrom>>

\* The process dies: the replay file survives, nothing in memory does.
PollCrash ==
    /\ running
    /\ running' = FALSE
    /\ last_poll_times' = [ch \in Channels |-> None]
    /\ pollIdx' = 1
    /\ pollPc' = "begin"
    /\ last_poll' = 0
    /\ batch' = << >>
    /\ handlers' = {}
    /\ cdc_errors_total' = [l \in ErrorLabels |-> 0]
    /\ failedFrom' = [ch \in Channels |-> None]
    /\ UNCHANGED <<ftVars, rowVars, concVars, replayFile, alive, lastEvent, raisedOn, stepVars,
                   storeSide, listenerVars, now, modstamps, startEntry, queriedFrom, delivered, raisedStamps>>

NextPoll ==
    \/ \E ch \in Channels : RegisterHandler(ch)
    \/ \E ch \in Channels : Commit(ch)
    \/ \E use_pubsub \in BOOLEAN : Start(use_pubsub)
    \/ PollBegin
    \/ \E io \in {"ok", "query_fails"} : PollQuery(io)
    \/ \E handlerRaises \in BOOLEAN, io \in {"ok", "write_fails", "write_torn"} :
          PollProcess(handlerRaises, io)
    \/ PollCrash

SpecPoll == Init /\ [][NextPoll]_vars

\* The polling loop with a record store that answers every query: the
\* failures are those of the handlers and of the replay file.
NextWatermark ==
    \/ \E ch \in Channels : RegisterHandler(ch)
    \/ \E ch \in Channels : Commit(ch)
    \/ \E use_pubsub \in BOOLEAN : Start(use_pubsub)
    \/ PollBegin
    \/ PollQuery("ok")
    \/ \E handlerRaises \in BOOLEAN, io \in {"ok", "write_fails", "write_torn"} :
          PollProcess(handlerRaises, io)
    \/ PollCrash

SpecWatermark == Init /\ [][NextWatermark]_vars

\* ------------------------------------------------- ReplayStore, one call at a time
storeOther == <<ftVars, rowVars, concVars, handlers, cdc_errors_total, alive, lastEvent,
                raisedOn, stepVars, pollVars, listenerVars>>

\* ReplayStore(path): a store object is constructed on the path, for the
\* first time or again.  io answers the write of {} when the file is missing.
Construct(io) ==
    LET r == ReplayStore_init(replayFile, io)
    IN  /\ io # "ok" => replayFile.kind = "missing"
        /\ replayFile' = r.file
        /\ constructed' = (constructed \/ ~r.raised)
        /\ lastGet' = NoGet
        /\ UNCHANGED <<storeOther, committed, lastSet, threadVars>>

\* set(channel, replay_id)
StoreSet(ch, tok, io) ==
    LET r == ReplayStore_set(replayFile, ch, tok, io)
    IN  /\ constructed
        /\ replayFile' = r.file
        /\ committed' = [committed EXCEPT ![ch] = IF r.raised THEN None ELSE Some(tok)]
        /\ lastSet' = [NoSet EXCEPT !.channel = ch, !.token = tok,
                                    !.before = ReplayStore_read(replayFile),
                                    !.raised = r.raised]
        /\ lastGet' = NoGet
        /\ UNCHANGED <<storeOther, constructed, threadVars>>

\* clear(channel) and clear()
StoreClear(target, io) ==
    LET r == ReplayStore_clear(replayFile, target, io)
    IN  /\ constructed
        /\ io # "ok" =>
               (IF target = "all" THEN TRUE ELSE ReplayStore_read(replayFile)[target] # None)
        /\ replayFile' = r.file
        /\ committed' = IF target = "all" THEN [ch \in Channels |-> None]
                        ELSE [committed EXCEPT ![target] = None]
        /\ lastSet' = NoSet
        /\ lastGet' = NoGet
        /\ UNCHANGED <<storeOther, constructed, threadVars>>

\* get(channel)
StoreGet(ch, io) ==
    /\ constructed
    /\ lastGet' = [NoGet EXCEPT
                       !.channel = ch,
                       !.value = IF ReplayStore_getRaises(replayFile, io) THEN None
                                 ELSE ReplayStore_get(replayFile, ch),
                       !.raised = ReplayStore_getRaises(replayFile, io),
                       !.unreadable = (replayFile.kind # "json" \/ io = "read_fails"),
                       !.expected = committed[ch]]
    /\ UNCHANGED <<storeOther, replayFile, constructed, committed, lastSet, threadVars>>

NextStore ==
    \/ \E io \in {"ok", "write_fails", "write_torn"} : Construct(io)
    \/ \E ch \in Channels, tok \in Tokens, io \in {"ok", "write_fails", "write_torn"} :
          StoreSet(ch, tok, io)
    \/ \E target \in Channels \cup {"all"}, io \in {"ok", "write_fails", "write_torn"} :
          StoreClear(target, io)
    \/ \E ch \in Channels, io \in {"ok", "read_fails"} : StoreGet(ch, io)

SpecStore == InitStore /\ [][NextStore]_vars

\* ------------------------------------------- ReplayStore, threads and crashes
\* Thread p calls set(ch, tok) on the store object the threads share.
SetCall(p, ch, tok) ==
    LET busy == \E q \in Procs \ {p} : tpc[q] # "idle"
    IN  /\ tpc[p] = "idle"
        /\ tpc' = [tpc EXCEPT ![p] = "waiting"]
        /\ tset' = [q \in Procs |->
                       IF q = p THEN [NoThreadSet EXCEPT !.channel = ch, !.token = tok,
                                                         !.overlap = busy]
                       ELSE IF tpc[q] # "idle" THEN [tset[q] EXCEPT !.overlap = TRUE]
                       ELSE tset[q]]
        /\ crashRec' = NoCrash
        /\ lastGet' = NoGet
        /\ UNCHANGED <<storeOther, constructed, committed, lastSet, replayFile, lock, prevSet>>

\* with self._lock: data = self._read(); data[channel] = replay_id
SetBegin(p) ==
    /\ tpc[p] = "waiting"
    /\ LockFree(lock)
    /\ lock' = p
    /\ tpc' = [tpc EXCEPT ![p] = "locked"]
    /\ tset' = [tset EXCEPT ![p].file0 = replayFile,
                            ![p].data = [ReplayStore_read(replayFile) EXCEPT
                                             ![tset[p].channel] = Some(tset[p].token)]]
    /\ lastGet' = NoGet
    /\ UNCHANGED <<storeOther, constructed, committed, lastSet, replayFile, prevSet, crashRec>>

\* The set() of thread p has ended, by returning or by raising.
SetEnds(p, raised) ==
    /\ tpc' = [tpc EXCEPT ![p] = "idle"]
    /\ tset' = [tset EXCEPT ![p] = NoThreadSet]
    /\ lock' = "free"
    /\ prevSet' = lastSet
    /\ lastSet' = IF raised \/ ~tset[p].overlap THEN NoSet
                  ELSE [NoSet EXCEPT !.channel = tset[p].channel, !.token = tset[p].token,
                                     !.overlap = TRUE]
    /\ lastGet' = NoGet

\* _write, first half: write_text opens the file with mode 'w'.
SetOpen(p, io) ==
    /\ tpc[p] = "locked"
    /\ IF io = "ok"
       THEN /\ replayFile' = TornFile
            /\ tpc' = [tpc EXCEPT ![p] = "opened"]
            /\ lastGet' = NoGet
            /\ UNCHANGED <<lock, tset, prevSet, lastSet>>
       ELSE /\ SetEnds(p, TRUE)
            /\ UNCHANGED replayFile
    /\ UNCHANGED <<storeOther, constructed, committed, crashRec>>

\* _write, second half: the text is written and the file closed; set returns.
SetWrite(p, io) ==
    /\ tpc[p] = "opened"
    /\ replayFile' = IF io = "ok" THEN JsonFile(tset[p].data) ELSE replayFile
    /\ SetEnds(p, io # "ok")
    /\ UNCHANGED <<storeOther, constructed, committed, crashRec>>

\* A thread that takes no part in the set() calls get(ch): no lock is taken.
GetDuring(ch) ==
    LET writers == {p \in Procs : tpc[p] \in {"locked", "opened"} /\ tset[p].channel = ch}
        w == CHOOSE p \in writers : TRUE
    IN  /\ lastGet' = [NoGet EXCEPT
                           !.channel = ch,
                           !.value = ReplayStore_get(replayFile, ch),
                           !.unreadable = replayFile.kind # "json",
                           !.old = IF writers = {} THEN None
                                   ELSE ReplayStore_get(tset[w].file0, ch),
                           !.new = IF writers = {} THEN None ELSE Some(tset[w].token)]
        /\ UNCHANGED <<storeOther, replayFile, constructed, committed, lastSet, threadVars>>

\* The process dies while thread p is inside the with block of set(); a new
\* process finds the file as it is.
SetCrash(p) ==
    /\ tpc[p] \in {"locked", "opened"}
    /\ crashRec' = [inSet |-> TRUE, before |-> tset[p].file0, after |-> tset[p].data]
    /\ tpc' = [q \in Procs |-> "idle"]
    /\ tset' = [q \in Procs |-> NoThreadSet]
    /\ lock' = "free"
    /\ prevSet' = NoSet
    /\ lastSet' = NoSet
    /\ lastGet' = NoGet
    /\ UNCHANGED <<storeOther, replayFile, constructed, committed>>

NextThreads ==
    \/ \E p \in Procs, ch \in Channels, tok \in Tokens : SetCall(p, ch, tok)
    \/ \E p \in Procs : SetBegin(p)
    \/ \E p \in Procs, io \in {"ok", "write_fails"} : SetOpen(p, io)
    \/ \E p \in Procs, io \in {"ok", "write_torn"} : SetWrite(p, io)
    \/ \E ch \in Channels : GetDuring(ch)
    \/ \E p \in Procs : SetCrash(p)

SpecThreads == Init /\ [][NextThreads]_vars

\* ------------------------------------------------- listeners/cdc_listener.py
\* Everything of the first-touch and subscriber side, which CDCListener
\* leaves alone.
listenOther == <<ftVars, rowVars, concVars, cdcVars, stepVars, pollVars, storeSide, plVars>>

\* The /meta/subscribe message of _subscribe carries the client id and the
\* channel and nothing else: the event source starts such a subscription at
\* the tip of the channel.
_subscribe(channel) == Some("tip")

\* The resume point of a subscription that continues from the channel's
\* entry in the replay file.
FromCursor(file, channel) ==
    IF ReplayStore_get(file, channel) = None THEN Some("tip")
    ELSE ReplayStore_get(file, channel)

\* The id the event source gives to the next handshake.
NextClient == IF client_id = None THEN 1 ELSE The(client_id) + 1

\* CDCListener.start up to the listen loop: the handshake, and on success a
\* _subscribe for every channel with a handler; accepted is the set of
\* channels whose subscription the event source accepts.  A failed
\* handshake makes start() return.
ListenStart(handshake_ok, accepted) ==
    /\ lpc = "idle"
    /\ ~handshake_ok => accepted = {}
    /\ lpc' = IF handshake_ok THEN "streaming" ELSE "returned"
    /\ client_id' = IF handshake_ok THEN Some(NextClient) ELSE client_id
    /\ subs' = [ch \in Channels |->
                  IF handshake_ok /\ ch \in handlers /\ ch \in accepted
                  THEN _subscribe(ch) ELSE None]
    /\ everSubscribed' = IF handshake_ok THEN handlers \cap accepted ELSE {}
    /\ UNCHANGED <<listenOther, pending, heard, reconnected, missed>>

\* The event source publishes an envelope on a channel: it is queued for the
\* client when the client holds a subscription to the channel.
Publish(ch) ==
    /\ lpc \in {"streaming", "lost"}
    /\ IF subs[ch] # None
       THEN /\ pending[ch] < MaxPending
            /\ pending' = [pending EXCEPT ![ch] = @ + 1]
            /\ UNCHANGED missed
       ELSE /\ ch \in everSubscribed
            /\ ch \notin missed
            /\ missed' = missed \cup {ch}
            /\ UNCHANGED pending
    /\ UNCHANGED <<listenOther, lpc, client_id, subs, heard, everSubscribed, reconnected>>

\* One turn of the listen loop in which _connect returns messages: each is
\* handed to _process_message, which awaits the handler and catches what it
\* raises.
ConnectMessages ==
    /\ lpc = "streaming"
    /\ \E ch \in Channels : pending[ch] > 0
    /\ pending' = [ch \in Channels |-> 0]
    /\ heard' = heard \cup {ch \in Channels : pending[ch] > 0}
    /\ UNCHANGED <<listenOther, lpc, client_id, subs, everSubscribed, reconnected, missed>>

\* One turn of the listen loop in which _connect returns None.
ConnectLost ==
    /\ lpc = "streaming"
    /\ lpc' = "lost"
    /\ pending' = [ch \in Channels |-> 0]
    /\ UNCHANGED <<listenOther, client_id, subs, heard, everSubscribed, reconnected, missed>>

\* After the sleep: await self._handshake() and continue.  A successful
\* handshake replaces client_id; the new client holds no subscription.  The
\* result of the handshake is not looked at: after a failed one the loop
\* goes on with the old client_id.
Rehandshake(handshake_ok) ==
    /\ lpc = "lost"
    /\ handshake_ok => NextClient <= MaxClient
    /\ lpc' = "streaming"
    /\ client_id' = IF handshake_ok THEN Some(NextClient) ELSE client_id
    /\ subs' = IF handshake_ok THEN [ch \in Channels |-> None] ELSE subs
    /\ reconnected' = (reconnected \/ handshake_ok)
    /\ heard' = IF handshake_ok THEN {} ELSE heard
    /\ UNCHANGED <<listenOther, pending, everSubscribed, missed>>

NextListen ==
    \/ \E ch \in Channels : RegisterHandler(ch)
    \/ \E handshake_ok \in BOOLEAN, accepted \in SUBSET Channels :
          ListenStart(handshake_ok, accepted)
    \/ \E ch \in Channels : Publish(ch)
    \/ ConnectMessages
    \/ ConnectLost
    \/ \E handshake_ok \in BOOLEAN : Rehandshake(handshake_ok)

\* The replay file that an earlier run left behind.
InitListen ==
    /\ InitOther
    /\ lead = EmptyLead
    /\ replayFile \in {JsonFile(d) : d \in [Channels -> {None} \cup {Some(t) : t \in Tokens}]}
    /\ constructed = TRUE

SpecListen == InitListen /\ [][NextListen]_vars

\* PollingListener of listeners/cdc_listener.py.  Its coroutines give way
\* to other tasks, stop() among them, only where they await: in
\* await handler(record) and in await asyncio.sleep(...).
plOther == <<ftVars, rowVars, concVars, cdcVars, stepVars, pollVars, storeSide, listenVars>>

\* The handlers in the order of the for loop.
InHandlers(ch) == ch \in handlers
PollOrder == SelectSeq(ChannelSeq, InHandlers)

\* register_handler(sobject_type, handler), before start() iterates over
\* the handlers.
PLRegister(ch) == plPc = "idle" /\ RegisterHandler(ch)

\* start(): self.running = True
PLStart ==
    /\ plPc = "idle"
    /\ plRunning' = TRUE
    /\ plPc' = "while"
    /\ plHandled' = 0
    /\ UNCHANGED <<plOther, plIdx, plBatch, stopAsked, startedAfterStop>>

\* while self.running:
PLWhile ==
    /\ plPc = "while"
    /\ plPc' = IF plRunning THEN "for" ELSE "done"
    /\ plIdx' = 1
    /\ UNCHANGED <<plOther, plRunning, plBatch, plHandled, stopAsked, startedAfterStop>>

\* _poll_object for the next handler: the query fails or returns n records;
\* with n > 0 the handler of the first record is called.
PLPollObject(n, io) ==
    /\ plPc = "for"
    /\ plIdx <= Len(PollOrder)
    /\ io = "query_fails" => n = 0
    /\ IF n = 0
       THEN /\ plIdx' = plIdx + 1
            /\ UNCHANGED <<plPc, plBatch, startedAfterStop>>
       ELSE /\ plBatch' = n
            /\ plPc' = "handling"
            /\ startedAfterStop' = (startedAfterStop \/ stopAsked)
            /\ UNCHANGED plIdx
    /\ UNCHANGED <<plOther, plRunning, plHandled, stopAsked>>

\* The handler of a record returns or raises (which is caught and logged);
\* the handler of the next record of the batch is called, or after the last
\* one last_poll_times is set and _poll_object returns.
PLHandlerDone(handlerRaises) ==
    /\ plPc = "handling"
    /\ plHandled < MaxBatch + 1
    /\ plHandled' = plHandled + 1
    /\ plBatch' = plBatch - 1
    /\ IF plBatch > 1
       THEN /\ startedAfterStop' = (startedAfterStop \/ stopAsked)
            /\ UNCHANGED <<plPc, plIdx>>
       ELSE /\ plPc' = "for"
            /\ plIdx' = plIdx + 1
            /\ UNCHANGED startedAfterStop
    /\ UNCHANGED <<plOther, plRunning, stopAsked>>

\* The for loop is through: await asyncio.sleep(self.poll_interval)
PLForEnd ==
    /\ plPc = "for"
    /\ plIdx > Len(PollOrder)
    /\ plPc' = "sleep"
    /\ UNCHANGED <<plOther, plRunning, plIdx, plBatch, plHandled, stopAsked, startedAfterStop>>

\* The sleep is over.
PLWake ==
    /\ plPc = "sleep"
    /\ plPc' = "while"
    /\ UNCHANGED <<plOther, plRunning, plIdx, plBatch, plHandled, stopAsked, startedAfterStop>>

\* stop(): self.running = False, called by another task while start() awaits.
PLStop ==
    /\ plPc \in {"handling", "sleep"}
    /\ ~stopAsked
    /\ plRunning' = FALSE
    /\ stopAsked' = TRUE
    /\ UNCHANGED <<plOther, plPc, plIdx, plBatch, plHandled, startedAfterStop>>

NextStop ==
    \/ \E ch \in Channels : PLRegister(ch)
    \/ PLStart
    \/ PLWhile
    \/ \E n \in 0..MaxBatch, io \in {"ok", "query_fails"} : PLPollObject(n, io)
    \/ \E handlerRaises \in BOOLEAN : PLHandlerDone(handlerRaises)
    \/ PLForEnd
    \/ PLWake
    \/ PLStop

SpecStop == Init /\ [][NextStop]_vars

Next == \E c \in Candidates, io \in {"ok", "get_fails", "update_fails"} : Detect(c, io)

Spec == Init /\ [][Next]_vars

\* The Lead records the record store may hold when the first call arrives:
\* CreatedDate is a timestamp, null or not among the keys, and a first
\* response is recorded (by whoever wrote the record) or not; the recorded
\* First_Response_At__c is a timestamp or a string that does not parse.
LeadRecords ==
    {[EmptyLead EXCEPT !.CreatedDate = created] :
        created \in {EmptyLead.CreatedDate, None, Absent}}
    \cup
    {[CreatedDate |-> created,
      First_Response_At__c |-> Some(iso(t)),
      First_Response_User__c |-> Some(u),
      First_Response_Source__c |-> Some("Task"),
      Time_to_First_Response__c |-> Some(0)] :
        created \in {EmptyLead.CreatedDate, None, Absent}, t \in Times, u \in Users}
    \cup
    {[CreatedDate |-> created,
      First_Response_At__c |-> Some(BadStr),
      First_Response_User__c |-> Some(u),
      First_Response_Source__c |-> Some("Task"),
      Time_to_First_Response__c |-> Some(0)] :
        created \in {EmptyLead.CreatedDate, None, Absent}, u \in Users}

InitLead ==
    /\ InitOther
    /\ lead \in LeadRecords
    /\ replayFile = JsonFile(EmptyData)
    /\ constructed = TRUE

SpecLead == InitLead /\ [][Next]_vars

\* ------------------------------------------------- sequential first touch
RECURSIVE ApplyAll(_, _)
\* The record after applying a sequence of candidates one at a time.
ApplyAll(rec, cands) ==
    IF cands = << >> THEN rec
    ELSE ApplyAll(detect_first_touch(rec, Head(cands).dt, Head(cands).user,
                                     Head(cands).source, "ok").lead, Tail(cands))

\* Every order in which the members of S can be applied, each once.
Orders(S) ==
    {s \in [1..Cardinality(S) -> S] : \A i, j \in 1..Cardinality(S) : s[i] = s[j] => i = j}

MinTime(S) == CHOOSE t \in S : \A u \in S : t <= u

CreatedAt == The(parse_dt(lead.CreatedDate))
RecordedAt == parse_dt(lead.First_Response_At__c)
FourFields(rec) ==
    <<rec.First_Response_At__c, rec.First_Response_User__c,
      rec.First_Response_Source__c, rec.Time_to_First_Response__c>>
ResponseFields == FourFields(lead)

\* C1: after a non-empty set of candidates has been applied one at a time to
\* a lead without a response, the recorded first_response_at is the minimum
\* candidate timestamp and the recorded minutes are
\* floor((minimum - created_at) in seconds / 60).
C1_MinimumRecorded ==
    applied # {} =>
        LET m == MinTime({c.dt : c \in applied})
        IN  /\ RecordedAt = Some(m)
            /\ lead.Time_to_First_Response__c =
                   Some(Floor(m - CreatedAt, SecondsPerMinute * TicksPerSec))

\* C2 (as stated): with the get_record and update_record steps of concurrent
\* invocations interleaved in any way, the recorded first_response_at never
\* changes from a set value to a strictly later one.
C2_NeverLater ==
    (lastWrite.proc # "none" /\ lastWrite.before # None) =>
        The(lastWrite.after) <= The(lastWrite.before)

\* C2 (amended): every update_record of a concurrent invocation writes a
\* first_response_at strictly earlier than the one its own get_record returned
\* (or that get_record found none), so the recorded value moves to a later one
\* only when another invocation's update_record took effect in between.
C2_EarlierThanOwnRead ==
    lastWrite.proc # "none" =>
        /\ lastWrite.read # None => The(lastWrite.after) < The(lastWrite.read)
        /\ (lastWrite.before # None /\ The(lastWrite.after) > The(lastWrite.before)) =>
               lastWrite.read # lastWrite.before

\* C2 witness: an invocation that had read a recorded response overwrote a value
\* another invocation wrote after that read, with a later one.
C2_Witness ==
    /\ lastWrite.proc # "none"
    /\ lastWrite.read # None /\ lastWrite.before # None
    /\ lastWrite.read # lastWrite.before
    /\ The(lastWrite.after) > The(lastWrite.before)

C4_ReapplyIsNoOp ==
    (call.op = "detect" /\ call.prevUpd # None /\ call.cand = call.prevUpd) =>
        (calls = << >> /\ ResponseFields = FourFields(call.before))

\* C4 witness: the candidate of the latest 'updated' result, one with a
\* sub-second part, was applied again and skipped.
C4_Witness ==
    /\ call.op = "detect"
    /\ call.prevUpd # None
    /\ call.cand = call.prevUpd
    /\ result = Some(SkippedResult)
    /\ RecordedAt # Some(The(call.cand).dt)

\* C5: every order of applying the same set of candidates to a lead without a
\* response ends in the same four response fields, the ones the lead has now.
C5_OrderIndependent ==
    \A s \in Orders(applied) : ApplyAll(EmptyLead, s) = lead

\* C6: the four response fields are all absent or all present and taken from
\* one candidate, the minutes are the ones computed from the recorded
\* first_response_at and created_at, and an invocation issues no update_record
\* or exactly one that carries all four fields.
C6_FourFieldsTogether ==
    /\ \/ ResponseFields = <<None, None, None, None>>
       \/ /\ \E c \in applied :
                /\ lead.First_Response_At__c = Some(iso(c.dt))
                /\ lead.First_Response_User__c = Some(c.user)
                /\ lead.First_Response_Source__c = Some(c.source)
          /\ RecordedAt # None
          /\ lead.Time_to_First_Response__c = Some(TtfrMinutes(The(RecordedAt), CreatedAt))
    /\ Len(calls) <= 1
    /\ \A i \in 1..Len(calls) :
           DOMAIN calls[i].fields =
               {"First_Response_At__c", "First_Response_User__c",
                "First_Response_Source__c", "Time_to_First_Response__c"}

\* ------------------------------------------------ find_and_record_first_touch
\* While call.op = "find" the two rows are the ones the call's queries returned.
FindRan == call.op = "find" /\ call.io # "query_fails"
TaskDt == IF taskRow = None THEN None ELSE parse_dt(Some(The(taskRow).CreatedDate))
EmailDt == IF emailRow = None THEN None ELSE parse_dt(Some(The(emailRow).MessageDate))
TaskCandidate == [dt |-> The(TaskDt), user |-> The(taskRow).OwnerId, source |-> "Task"]
EmailCandidate ==
    [dt |-> The(EmailDt), user |-> The(emailRow).CreatedById, source |-> "EmailMessage"]

\* C7: with a Task and an EmailMessage candidate of different timestamps the
\* one with the strictly smaller timestamp is passed to detect_first_touch with
\* its own responder and source; with a candidate from one source only, that
\* candidate is passed.
C7_StrictlyEarlierPassed ==
    FindRan =>
        /\ (TaskDt # None /\ EmailDt # None /\ The(TaskDt) < The(EmailDt)) =>
               call.cand = Some(TaskCandidate)
        /\ (TaskDt # None /\ EmailDt # None /\ The(EmailDt) < The(TaskDt)) =>
               call.cand = Some(EmailCandidate)
        /\ (TaskDt # None /\ EmailDt = None) => call.cand = Some(TaskCandidate)
        /\ (TaskDt = None /\ EmailDt # None) => call.cand = Some(EmailCandidate)

\* C7 witness: the EmailMessage candidate was strictly earlier than the Task
\* candidate, was passed on and was recorded.
C7_Witness ==
    /\ FindRan
    /\ TaskDt # None /\ EmailDt # None
    /\ The(EmailDt) < The(TaskDt)
    /\ The(taskRow).OwnerId # The(emailRow).CreatedById
    /\ result # None /\ The(result).status = "updated"
    /\ lead.First_Response_Source__c = Some("EmailMessage")

\* C8: with a Task and an EmailMessage candidate of exactly equal timestamps
\* the Task candidate is passed to detect_first_touch, and it is the one
\* recorded when that call updates the lead.
C8_TaskWinsTie ==
    (FindRan /\ TaskDt # None /\ EmailDt # None /\ TaskDt = EmailDt) =>
        /\ call.cand = Some(TaskCandidate)
        /\ (result # None /\ The(result).status = "updated") =>
               /\ lead.First_Response_At__c = Some(iso(The(TaskDt)))
               /\ lead.First_Response_User__c = Some(The(taskRow).OwnerId)
               /\ lead.First_Response_Source__c = Some("Task")

\* C8 witness: a tie between candidates of different responders was recorded.
C8_Witness ==
    /\ FindRan
    /\ TaskDt # None /\ TaskDt = EmailDt
    /\ The(taskRow).OwnerId # The(emailRow).CreatedById
    /\ result # None /\ The(result).status = "updated"

\* C9: when neither query returns a row, find_and_record_first_touch returns
\* None, does not call detect_first_touch, issues no update_record and leaves
\* the response fields as they are.
C9_AbsentWithoutWrite ==
    (FindRan /\ taskRow = None /\ emailRow = None) =>
        /\ result = None
        /\ call.cand = None
        /\ calls = << >>
        /\ ResponseFields = FourFields(call.before)

\* C9 witness: both queries came back empty for a lead that has a response.
C9_Witness ==
    /\ FindRan /\ taskRow = None /\ emailRow = None
    /\ result = None
    /\ RecordedAt # None

\* ------------------------------------------------------------ _process_event
\* C10: when the handler raises for an envelope, _process_event does not
\* propagate the error and the loop goes on, the replay file holds the
\* envelope's token if it carried one, and the next envelope of the channel
\* gets its handler invoked (unless that envelope fails before the handler).
C10_HandlerErrorIsLocal ==
    /\ lastEvent.raised =>
           /\ ~lastEvent.propagated
           /\ alive
           /\ Truthy(lastEvent.event.replayId) =>
                  ReplayStore_get(replayFile, lastEvent.channel) =
                      Some(str(The(lastEvent.event.replayId)))
    /\ (lastEvent.afterRaise /\ lastEvent.channel \in handlers
            /\ (lastEvent.error = None \/ lastEvent.raised)) => lastEvent.invoked

\* C10 witness: the envelope after one whose handler raised was processed, its
\* handler raised too, and the replay file holds the token it carried.
C10_Witness ==
    /\ lastEvent.afterRaise
    /\ lastEvent.invoked /\ lastEvent.raised
    /\ Truthy(lastEvent.event.replayId)
    /\ ReplayStore_get(replayFile, lastEvent.channel) = Some(str(The(lastEvent.event.replayId)))
    /\ alive

\* ------------------------------------------------- cursor and handler order
\* C11: while an envelope that carries a token is being processed and its
\* handler has not yet run, the replay file does not already hold that token
\* (unless it held it before the envelope), and when the process dies during
\* the handler the channel's entry is the one from before the envelope.
C11_CursorAfterHandler ==
    /\ (/\ stepPc = "handler"
        /\ Truthy(stepEnv.event.replayId)
        /\ stepPrev # Some(str(The(stepEnv.event.replayId)))) =>
           ReplayStore_get(replayFile, stepEnv.channel) #
               Some(str(The(stepEnv.event.replayId)))
    /\ (crashedAt # NoEnvelope /\ Truthy(crashedAt.event.replayId)) =>
           ReplayStore_get(replayFile, crashedAt.channel) = stepPrev

\* C12: when start() finds token t in the replay file for a channel, the
\* queries of that channel start from t until a record has been delivered, and
\* no record committed after t is left behind the lower bound of a query
\* without having been handed to _process_event.
C12_ResumesFromCursor ==
    \A ch \in Channels :
        (running /\ startEntry[ch] # None /\ queriedFrom[ch] # None) =>
            /\ delivered[ch] = {} => The(queriedFrom[ch]) = StampOf(The(startEntry[ch]))
            /\ \A m \in modstamps[ch] :
                   (m > StampOf(The(startEntry[ch])) /\ m <= The(queriedFrom[ch])) =>
                       m \in delivered[ch]

\* ------------------------------------------------------------- ReplayStore
\* C13: once set(c, t) has returned and no later set or clear on c was
\* called, get(c) is t, whichever store object on the path is asked.
C13_SetThenGet ==
    \A ch \in Channels :
        committed[ch] # None => ReplayStore_get(replayFile, ch) = committed[ch]

\* C14: a set on one channel leaves what get returns for every other channel
\* as it was before that set.
C14_OtherChannelsKept ==
    lastSet.channel # "none" =>
        \A c1 \in Channels \ {lastSet.channel} :
            ReplayStore_get(replayFile, c1) = lastSet.before[c1]

\* C16: a get that finds a file it cannot read or decode raises, and a get
\* on a channel whose token a set committed does not return None.
C16_ReadFailureSurfaces ==
    lastGet.channel # "none" =>
        /\ lastGet.unreadable => lastGet.raised
        /\ lastGet.expected # None => (lastGet.raised \/ lastGet.value # None)

\* C17: a get(c) that runs while a set(c, new) is under way, on a channel
\* that had a token before that set, returns the token from before the set or
\* the new one.
C17_GetSeesOldOrNew ==
    (lastGet.channel # "none" /\ lastGet.old # None) =>
        lastGet.value \in {lastGet.old, lastGet.new}

\* C18: after the process died inside a set, the file is the complete file
\* from before that set or the complete file with the set applied.
C18_CrashLeavesOldOrNew ==
    crashRec.inSet => replayFile \in {crashRec.before, JsonFile(crashRec.after)}

\* C19: when two set calls on different channels that ran at the same time
\* have both returned, get of each channel returns the token of its own set.
C19_BothSetsPersisted ==
    (/\ \A p \in Procs : tpc[p] = "idle"
     /\ prevSet.channel # "none" /\ lastSet.channel # "none"
     /\ prevSet.channel # lastSet.channel
     /\ ~prevSet.raised /\ ~lastSet.raised
     /\ prevSet.overlap /\ lastSet.overlap) =>
        /\ ReplayStore_get(replayFile, prevSet.channel) = Some(prevSet.token)
        /\ ReplayStore_get(replayFile, lastSet.channel) = Some(lastSet.token)

\* C19 witness: two set calls that overlapped, on different channels and with
\* different tokens, have returned and the file holds both tokens.
C19_Witness ==
    /\ \A p \in Procs : tpc[p] = "idle"
    /\ prevSet.channel # "none" /\ lastSet.channel # "none"
    /\ prevSet.channel # lastSet.channel
    /\ ~prevSet.raised /\ ~lastSet.raised
    /\ prevSet.overlap /\ lastSet.overlap
    /\ prevSet.token # lastSet.token
    /\ replayFile = JsonFile([ch \in Channels |->
                                 IF ch = prevSet.channel THEN Some(prevSet.token)
                                 ELSE Some(lastSet.token)])

C20_MissingCreatedDateIsError ==
    (/\ call.op = "detect"
     /\ call.io # "get_fails"
     /\ call.before.CreatedDate \in {None, Absent}
     /\ LET existing_dt == parse_dt(call.before.First_Response_At__c)
        IN  existing_dt = None \/ The(call.cand).dt < The(existing_dt))
        => /\ The(result).status = "error"
           /\ The(result).reason = "Missing CreatedDate"
           /\ calls = << >>
           /\ lead = call.before

\* ----------------------------------------------------- minutes to response
\* C21: the minutes that a call of detect_first_touch returns and writes to
\* the lead are an integer >= 0 equal to
\* floor((candidate - created_at) in seconds / 60), also for a candidate
\* earlier than the lead's created_at.
C21_MinutesAreFloorAndNonNegative ==
    (call.op = "detect" /\ The(result).status = "updated") =>
        LET minutes == Floor(The(call.cand).dt - The(parse_dt(call.before.CreatedDate)),
                             SecondsPerMinute * TicksPerSec)
        IN  /\ The(result).ttfr_minutes = Some(minutes)
            /\ lead.Time_to_First_Response__c = Some(minutes)
            /\ minutes >= 0

\* ------------------------------------------------- record store failures
\* C22: a call of detect_first_touch whose update_record fails returns the
\* error result with the failure as detail, not 'updated' and no exception,
\* and the record is as it was; a call whose get_record fails returns the
\* error result and issues no update_record.
C22_StoreFailureIsErrorResult ==
    call.op = "detect" =>
        /\ call.io = "get_fails" =>
               /\ The(result).status = "error"
               /\ The(result).reason = "get_record"
               /\ calls = << >>
               /\ lead = call.before
        /\ (Len(calls) = 1 /\ ~calls[1].ok) =>
               /\ call.io = "update_fails"
               /\ The(result).status = "error"
               /\ The(result).reason = "update_record"
               /\ lead = call.before

\* C22 witness: update_record failed for a candidate strictly earlier than
\* the recorded response, and the call returned the error result.
C22_Witness ==
    /\ call.op = "detect"
    /\ Len(calls) = 1
    /\ ~calls[1].ok
    /\ call.before.First_Response_At__c # None
    /\ The(call.cand).dt < The(parse_dt(call.before.First_Response_At__c))
    /\ The(result).status = "error"
    /\ lead = call.before

\* --------------------------------------------- malformed first_response_at
\* C23: a call of detect_first_touch that finds a first_response_at which is
\* there but does not parse returns a failed result, issues no update_record
\* and leaves the four response fields as they were.
C23_MalformedExistingIsError ==
    (/\ call.op = "detect"
     /\ call.io = "ok"
     /\ call.before.First_Response_At__c = Some(BadStr))
        => /\ The(result).status = "error"
           /\ calls = << >>
           /\ FourFields(lead) = FourFields(call.before)

\* ------------------------------------------------------ malformed envelopes
\* C24: after an envelope without the data/payload/event structure was
\* processed, nothing was raised to the caller and an error was counted for
\* the entity of the channel.
C24_MalformedIsCounted ==
    (lastEvent.channel # "none" /\ lastEvent.event.shape \in {"no_data", "bad_data"}) =>
        /\ ~lastEvent.propagated
        /\ alive
        /\ lastEvent.error # None
        /\ The(lastEvent.error)[1] = _extract_object_name(lastEvent.channel)

C29_FailedSetSkipsHandler ==
    LET label == <<_extract_object_name(lastEvent.channel), "OSError">>
    IN  (lastEvent.channel # "none" /\ lastEvent.error = Some(label)) =>
            /\ ~lastEvent.propagated
            /\ alive
            /\ cdc_errors_total[label] >= 1
            /\ ~lastEvent.stored
            /\ ~lastEvent.invoked
            /\ ~lastEvent.raised

\* C29 witness: on a channel with a handler, a set() failure was counted and
\* the envelope processed last was not invoked on; the counter shows an
\* earlier failure too, after which this envelope was still processed.
C29_Witness ==
    LET label == <<_extract_object_name(lastEvent.channel), "OSError">>
    IN  /\ lastEvent.channel \in handlers
        /\ lastEvent.error = Some(label)
        /\ cdc_errors_total[label] >= 2
        /\ ~lastEvent.invoked
        /\ alive

\* ------------------------------------------------------ failed poll query
\* C26: after the poll query of a channel failed the loop is still running
\* and the channel's watermark is what it was, and the next query for that
\* channel is issued from the lower bound of the failed one.
C26_FailedQueryRetriedFromSame ==
    \A ch \in Channels :
        failedFrom[ch] # None =>
            /\ running
            /\ last_poll_times[ch] = The(failedFrom[ch]).watermark
            /\ (pollPc = "query" /\ ChannelSeq[pollIdx] = ch) =>
                   last_poll = The(failedFrom[ch]).from

\* -------------------------------------------- watermark and failed handlers
MaxStamp(S) == CHOOSE m \in S : \A x \in S : x <= m

\* C30: whenever the loop is not inside a batch of a channel, the channel's
\* watermark is the SystemModstamp of the last record handed to
\* _process_event since start(), whether its handler raised or not; and no
\* record whose handler raised is in the batch of a later query.
C30_FailedHandlerNotRetried ==
    \A ch \in Channels :
        /\ (running /\ delivered[ch] # {} /\ ~(pollPc = "process" /\ ChannelSeq[pollIdx] = ch)) =>
               last_poll_times[ch] = Some(MaxStamp(delivered[ch]))
        /\ (pollPc = "process" /\ ChannelSeq[pollIdx] = ch) =>
               \A i \in 1..Len(batch) : batch[i] \notin raisedStamps[ch]

\* C30 witness: the watermark of a channel is a record whose handler raised,
\* and a later query from that watermark returned a record modified after it.
C30_Witness ==
    \E ch \in Channels :
        /\ running
        /\ pollPc = "process"
        /\ ChannelSeq[pollIdx] = ch
        /\ last_poll_times[ch] # None
        /\ The(last_poll_times[ch]) \in raisedStamps[ch]
        /\ queriedFrom[ch] = last_poll_times[ch]
        /\ batch # << >>
        /\ Head(batch) > The(last_poll_times[ch])

\* ----------------------------------------------------- reconnecting listener
\* C27: once a lost connection has been replaced by a new handshake and the
\* listener is back in the listen loop, the client holds a subscription for
\* every channel start() subscribed, each continuing from the channel's entry
\* in the replay file, and no envelope of such a channel was published while
\* the client held no subscription to it.
C27_ReconnectResubscribes ==
    (lpc = "streaming" /\ reconnected) =>
        /\ \A ch \in everSubscribed : subs[ch] = FromCursor(replayFile, ch)
        /\ missed = {}

\* ------------------------------------------------------------ cooperative stop
\* C28: once stop has been requested no handler is called for a further
\* record: the record being handled is finished and the loop ends.
C28_NoEnvelopeAfterStop == ~startedAfterStop

====
